---------------------------- MODULE Spec2Model ----------------------------
(***************************************************************************)
(* A model of the twitch-tools client library:                             *)
(*   - Route (twitch/http.py): the endpoint signature of a request;        *)
(*   - HTTPClient.request (twitch/http.py): the dispatcher with its        *)
(*     per-signature asyncio locks, retry loop and deferred release;       *)
(*   - GameIterator / UserIterator (twitch/iterators.py) and chunks        *)
(*     (twitch/utils.py): key-batched iteration.                           *)
(* Strings whose characters matter (query keys and values, the repr of a   *)
(* Route) are sequences of code points, so that Python's ordering of       *)
(* strings and urllib's quote can be computed.                             *)
(***************************************************************************)
EXTENDS Integers, Sequences, FiniteSets, TLC

VARIABLES
    \* ---- Route (signature) ----
    rt_params,      \* the parameter list a Route is built from
    rt_first,       \* the Route built from the first ordering of the list
    rt_route,       \* the Route built from the current ordering
    \* ---- HTTPClient.request ----
    pc,             \* position of each request() coroutine
    route,          \* the Route argument of each request
    lockOf,         \* the local variable `lock` of each request
    attempt,        \* the loop variable `attempt`
    unlockFlag,     \* MaybeUnlock._unlock of each request
    resp,           \* the local variables `r`, `data`: the last response
    sleepFor,       \* the argument of the asyncio.sleep in progress
    result,         \* how request() ended
    locks,          \* HTTPClient._locks : hash -> lock object
    locked,         \* asyncio.Lock._locked of each lock object
    waiters,        \* asyncio.Lock._waiters of each lock object
    woken,          \* waiters whose future has been resolved by release()
    holder,         \* the request whose acquisition currently holds the lock
    timers,         \* pending loop.call_later(delta, lock.release) handles
    window,         \* per signature: time left until the reset announced by
                    \* the last 2xx response with Ratelimit-Remaining "0"
    badRelease,     \* lock.release() was invoked on an unlocked lock, or on a
                    \* lock that another request's acquisition holds
    \* ---- key-batched iterators ----
    it_kind,        \* "game" | "user": GameIterator or UserIterator
    it_given,       \* the arguments ids and names (logins) of the constructor
    it_state,       \* "new" before __init__, then "ready"; "invalid" when
                    \* __init__ raised
    it_ids,         \* the generator self.ids (or None)
    it_names,       \* the generator self.names / self.logins (or None)
    it_queue,       \* self.games / self.users
    it_reqs,        \* the dispatcher calls issued so far: the chunks of ids
                    \* and names sent and how the call ended
    it_out,         \* what the last next() produced
    it_got,         \* number of records next() has returned
    it_faults,      \* number of responses that were errors or lacked records
    \* ---- StreamIterator ----
    st_state,       \* None while there is no StreamIterator, then "ready"
    st_given,       \* the limit the StreamIterator was constructed with
    st_limit,       \* self.limit: the remaining budget, or None
    st_cursor,      \* self._cursor (0 for None)
    st_filter,      \* self._filter
    st_queue,       \* self.streams
    st_reqs,        \* the dispatcher calls issued so far: `first`, `after`
                    \* and how the call ended (the filter sent is st_filter)
    st_out,         \* what the last next() or filter() produced (for
                    \* filter(), with the arguments it was given)
    st_got,         \* number of records next() has returned
    st_faults,      \* number of dispatcher calls that raised
    st_filters,     \* number of filter() calls made
    \* ---- Client ----
    cl_call,        \* the pending call of get_game, get_user or get_stream
    cl_out,         \* what that call produced
    \* ---- HTTPClient construction and request headers ----
    hc_given,       \* how the HTTPClient is constructed, and from which
                    \* client_id, token and session arguments
    hc_client_id,   \* HTTPClient.client_id
    hc_token,       \* HTTPClient.token
    hc_session,     \* HTTPClient._session
    hc_calls        \* per request() call: the headers it built and whether
                    \* the HTTP call was issued on the session

rtVars == <<rt_params, rt_first, rt_route>>
httpVars == <<pc, route, lockOf, attempt, unlockFlag, resp, sleepFor, result,
              locks, locked, waiters, woken, holder, timers,
              window, badRelease>>
itVars == <<it_kind, it_given, it_state, it_ids, it_names, it_queue, it_reqs,
            it_out, it_got, it_faults>>
stVars == <<st_state, st_given, st_limit, st_cursor, st_filter, st_queue, st_reqs,
            st_out, st_got, st_faults, st_filters>>
clVars == <<cl_call, cl_out>>
hcVars == <<hc_given, hc_client_id, hc_token, hc_session, hc_calls>>
vars == <<rtVars, httpVars, itVars, stVars, clVars, hcVars>>

None == "None"
\* `None` where a lock or a request is expected (lock ids and request ids
\* are positive).
Nil == 0

Min(a, b) == IF a < b THEN a ELSE b
Max(a, b) == IF a > b THEN a ELSE b

RECURSIVE Concat(_)
Concat(ss) == IF ss = <<>> THEN <<>> ELSE Head(ss) \o Concat(Tail(ss))

(***************************************************************************)
(* Strings as code points.                                                 *)
(***************************************************************************)
S_a == <<97>>
S_b == <<98>>
S_a_b == <<97, 32, 98>>            \* "a b"
S_pct == <<97, 37>>                \* "a%"
S_id == <<105, 100>>               \* "id"
S_name == <<110, 97, 109, 101>>    \* "name"
S_first == <<102, 105, 114, 115, 116>>
S_GET == <<71, 69, 84>>
S_POST == <<80, 79, 83, 84>>
S_games == <<47, 103, 97, 109, 101, 115>>   \* "/games"
S_users == <<47, 117, 115, 101, 114, 115>>  \* "/users"

Str(s) == [t |-> "str", v |-> s]
Num(n) == [t |-> "int", v |-> n]

\* Python's < on str: lexicographic by code point, a proper prefix is smaller.
RECURSIVE StrLess(_, _)
StrLess(s, t) ==
    IF t = <<>> THEN FALSE
    ELSE IF s = <<>> THEN TRUE
    ELSE IF Head(s) # Head(t) THEN Head(s) < Head(t)
    ELSE StrLess(Tail(s), Tail(t))

\* < on two parameter values of the same type (str/str or int/int).
ValLess(x, y) ==
    IF x.t = "int" THEN x.v < y.v ELSE StrLess(x.v, y.v)

\* < on (key, value) tuples: keys first, then values.
PairLess(p, q) ==
    IF p[1] # q[1] THEN StrLess(p[1], q[1]) ELSE ValLess(p[2], q[2])

HexDigit(n) == IF n < 10 THEN 48 + n ELSE 55 + n

\* urllib.parse.quote's always-safe characters plus the default safe "/".
IsSafeChar(c) ==
    \/ c \in 48..57 \/ c \in 65..90 \/ c \in 97..122
    \/ c \in {45, 46, 95, 126, 47}

\* urllib.parse.quote(v): every other character becomes %XX.
RECURSIVE quote(_)
quote(s) ==
    IF s = <<>> THEN <<>>
    ELSE (IF IsSafeChar(Head(s)) THEN <<Head(s)>>
          ELSE <<37, HexDigit(Head(s) \div 16), HexDigit(Head(s) % 16)>>)
         \o quote(Tail(s))

\* (k, quote(v) if isinstance(v, str) else v)
QuoteParam(p) == <<p[1], IF p[2].t = "str" THEN Str(quote(p[2].v)) ELSE p[2]>>

\* Route.__init__: self.params = [(k, quote(v) if isinstance(v, str) else v) ...]
RouteInit(method, path, params) ==
    [method |-> method, path |-> path,
     params |-> [i \in 1..Len(params) |-> QuoteParam(params[i])]]

NoRoute == [method |-> <<>>, path |-> <<>>, params |-> <<>>]

\* sorted(): a stable insertion sort by PairLess.
RECURSIVE Insert(_, _)
Insert(x, s) ==
    IF s = <<>> THEN <<x>>
    ELSE IF PairLess(x, Head(s)) THEN <<x>> \o s
    ELSE <<Head(s)>> \o Insert(x, Tail(s))

RECURSIVE SortedFrom(_, _)
SortedFrom(s, acc) ==
    IF s = <<>> THEN acc ELSE SortedFrom(Tail(s), Insert(Head(s), acc))

\* A sorted() that leaves the list in the order given.
SortedKeepsOrder(s) == s

Sorted(s) == SortedFrom(s, <<>>)

\* repr() of an int >= 0: its decimal digits.
RECURSIVE ReprInt(_)
ReprInt(n) == IF n < 10 THEN <<48 + n>> ELSE ReprInt(n \div 10) \o <<48 + (n % 10)>>

\* repr() of a str without quotes or escapes in it: 'text'.
ReprStr(s) == <<39>> \o s \o <<39>>

ReprVal(x) == IF x.t = "int" THEN ReprInt(x.v) ELSE ReprStr(x.v)

\* repr() of a (key, value) tuple: ('k', v)
ReprPair(p) == <<40>> \o ReprStr(p[1]) \o <<44, 32>> \o ReprVal(p[2]) \o <<41>>

\* repr() of a tuple of pairs: (), (x,), (x, y, ...)
RECURSIVE JoinPairs(_)
JoinPairs(ps) ==
    IF ps = <<>> THEN <<>>
    ELSE IF Len(ps) = 1 THEN ReprPair(ps[1])
    ELSE ReprPair(Head(ps)) \o <<44, 32>> \o JoinPairs(Tail(ps))

ReprTuple(ps) ==
    <<40>> \o JoinPairs(ps) \o (IF Len(ps) = 1 THEN <<44>> ELSE <<>>) \o <<41>>

\* Route.__repr__: f"{self.method}:{self.path}:{tuple(sorted(self.params))}"
RouteRepr(r) ==
    r.method \o <<58>> \o r.path \o <<58>> \o ReprTuple(Sorted(r.params))

\* hash() of a str.  CPython's hash is a keyed 64-bit SipHash; this stand-in is
\* a polynomial hash of the same text (sum of s[i] * 31^(n-i) modulo a
\* prime), a function of the characters only, computed by halving.
RECURSIVE HashPow(_)
HashPow(n) ==
    IF n = 0 THEN 1
    ELSE IF n % 2 = 1 THEN (31 * HashPow(n - 1)) % 32749
    ELSE LET h == HashPow(n \div 2) IN (h * h) % 32749

RECURSIVE HashSeg(_, _, _)
HashSeg(s, lo, hi) ==
    IF lo > hi THEN 0
    ELSE IF lo = hi THEN s[lo] % 32749
    ELSE LET mid == (lo + hi) \div 2
         IN (HashSeg(s, lo, mid) * HashPow(hi - mid) + HashSeg(s, mid + 1, hi))
               % 32749

StrHash(s) == HashSeg(s, 1, Len(s))

\* A hash that looks at the method only.
RouteHashMethodOnly(r) == StrHash(r.method)

\* Route.__hash__: hash(repr(self))
RouteHash(r) == StrHash(RouteRepr(r))


(***************************************************************************)
(* Specification of Route: a Route is built from a parameter list and from *)
(* reorderings of that list.                                               *)
(***************************************************************************)
MaxParams == 3

ParamPairs ==
    {<<S_id, Str(S_a)>>, <<S_id, Str(S_b)>>, <<S_id, Str(S_a_b)>>,
     <<S_name, Str(S_pct)>>, <<S_first, Num(20)>>, <<S_first, Num(3)>>}

ParamLists == UNION {[1..n -> ParamPairs] : n \in 0..MaxParams}

Endpoints == {<<S_GET, S_games>>, <<S_GET, S_users>>}

RtInit ==
    /\ rt_params \in ParamLists
    /\ \E e \in Endpoints : rt_first = RouteInit(e[1], e[2], rt_params)
    /\ rt_route = rt_first

\* The caller passes the same parameters in another order: positions i and
\* i+1 are exchanged and a new Route is constructed.
RtPermute(i) ==
    /\ i \in 1..(Len(rt_params) - 1)
    /\ rt_params[i] # rt_params[i + 1]
    /\ rt_params' = [rt_params EXCEPT ![i] = rt_params[i + 1],
                                       ![i + 1] = rt_params[i]]
    /\ rt_route' = RouteInit(rt_first.method, rt_first.path, rt_params')
    /\ UNCHANGED rt_first
    /\ UNCHANGED <<httpVars, itVars, stVars, clVars, hcVars>>

RtNext == \E i \in 1..MaxParams : RtPermute(i)

RtIdle == rt_params = <<>> /\ rt_first = NoRoute /\ rt_route = NoRoute
(***************************************************************************)
(* HTTPClient.request: concurrent requests on one event loop.  A step of   *)
(* the model is what a coroutine or a loop callback does between two       *)
(* awaits.  Time is kept as the time left of every pending timer and of    *)
(* every announced quota reset; Tick lets one second pass.  A sleep        *)
(* records its duration and may end at any later step: how long a backoff  *)
(* sleep lasts compared with the timers is left open.                      *)
(***************************************************************************)
MaxDelta == 1
MaxTimers == 1
AttemptBudget == 5

\* Two concurrent callers of request(); a request creates at most one lock.
Procs == {1, 2}
LockIds == Procs

R_ab == RouteInit(S_GET, S_games, << <<S_id, Str(S_a)>>, <<S_id, Str(S_a_b)>> >>)
R_ba == RouteInit(S_GET, S_games, << <<S_id, Str(S_a_b)>>, <<S_id, Str(S_a)>> >>)
R_u == RouteInit(S_GET, S_users, << <<S_id, Str(S_a)>> >>)
RouteSet == {R_ab, R_ba, R_u}

\* The routes each caller may request: the first caller asks for /games, the
\* second for the same parameters in the other order or for /users.
RoutesOf(p) == IF p = 1 THEN {R_ab} ELSE {R_ba, R_u}

\* The Endpoint Signature of a route and the key `route_hash = hash(route)`.
SigOf == [r \in RouteSet |-> RouteRepr(r)]
HashOf == [r \in RouteSet |-> RouteHash(r)]
Sigs == {SigOf[r] : r \in RouteSet}
Hashes == {HashOf[r] : r \in RouteSet}

Statuses == {200, 404, 429, 500}
TransientStatuses == {429, 500, 502, 503}
Remainings == {"0", "5", None}
\* Ratelimit-Reset minus utcnow(), in seconds.
Resets == -1..MaxDelta

\* The rate-limit headers of a response.  Ratelimit-Reset is read only when
\* Ratelimit-Remaining is "0"; it may be missing.
Headers ==
    {[remaining |-> m, hasReset |-> FALSE, reset |-> 0] : m \in Remainings}
    \cup {[remaining |-> "0", hasReset |-> TRUE, reset |-> d] : d \in Resets}

\* A response as the request keeps it in `r`: its status and the attempt
\* (1..5) it answers.
NoResp == [status |-> 0, n |-> 0]
\* How request() ended: the kind of outcome, the response being handled
\* (status, n), whether that response said Ratelimit-Remaining "0", and
\* whether it lacked the Ratelimit-Reset header that the code then reads.
NoResult == [kind |-> None, status |-> 0, n |-> 0, zero |-> FALSE,
             missing |-> FALSE]

\* `300 > r.status >= 200`
IsSuccess(status) == 300 > status /\ status >= 200

\* `r.status in {429, 500, 502, 503}`
IsTransient(status) == status \in TransientStatuses


\* `remaining == "0" and r.status != 429`
QuotaExhausted(status, remaining) == remaining = "0" /\ status # 429

\* asyncio.sleep(1 + attempt * 2)
Backoff(a) == 1 + a * 2

\* ---- pending call_later handles: a bag of [lock, left, owner, sig] ----
\* lock: the lock whose release is scheduled; left: seconds until it is due;
\* owner, sig: the request that scheduled it and that request's signature.
RECURSIVE BagSum(_, _)
BagSum(b, S) ==
    IF S = {} THEN 0
    ELSE LET t == CHOOSE x \in S : TRUE IN b[t] + BagSum(b, S \ {t})

\* Pending timers scheduled by request p / in total.
TimerCount(p) == BagSum(timers, {t \in DOMAIN timers : t.owner = p})
TimerTotal == BagSum(timers, DOMAIN timers)

BagAdd(b, t) == IF t \in DOMAIN b THEN [b EXCEPT ![t] = @ + 1] ELSE b @@ (t :> 1)
BagRemove(b, t) ==
    IF b[t] > 1 THEN [b EXCEPT ![t] = @ - 1]
    ELSE [k \in DOMAIN b \ {t} |-> b[k]]

\* Timers whose remaining time never shrinks.
TickTimersStuck(b) == b

\* One second less on every pending timer.
TickTimers(b) ==
    LET dec(t) == [t EXCEPT !.left = Max(t.left - 1, 0)]
        up(k) == [k EXCEPT !.left = k.left + 1]
    IN [k \in {dec(t) : t \in DOMAIN b} |->
            (IF k \in DOMAIN b /\ k.left = 0 THEN b[k] ELSE 0)
          + (IF up(k) \in DOMAIN b THEN b[up(k)] ELSE 0)]

\* Lock objects that only the requests' locals keep alive.
ReferencedByRequests(l, lockOfN, timersN) == \E q \in Procs : lockOfN[q] = l

\* A lock object is alive while a request's local `lock` or a timer's bound
\* method lock.release refers to it.
Referenced(l, lockOfN, timersN) ==
    \/ \E q \in Procs : lockOfN[q] = l
    \/ \E t \in DOMAIN timersN : t.lock = l


\* self._locks is a WeakValueDictionary: entries of collected locks disappear.
Purged(locksN, lockOfN, timersN) ==
    [h \in Hashes |->
        IF locksN[h] # Nil /\ Referenced(locksN[h], lockOfN, timersN)
        THEN locksN[h] ELSE Nil]

HttpInit ==
    /\ pc = [p \in Procs |-> "idle"]
    /\ route = [p \in Procs |-> NoRoute]
    /\ lockOf = [p \in Procs |-> Nil]
    /\ attempt = [p \in Procs |-> 0]
    /\ unlockFlag = [p \in Procs |-> TRUE]
    /\ resp = [p \in Procs |-> NoResp]
    /\ sleepFor = [p \in Procs |-> 0]
    /\ result = [p \in Procs |-> NoResult]
    /\ locks = [h \in Hashes |-> Nil]
    /\ locked = [l \in LockIds |-> FALSE]
    /\ waiters = [l \in LockIds |-> <<>>]
    /\ woken = [l \in LockIds |-> FALSE]
    /\ holder = [l \in LockIds |-> Nil]
    /\ timers = <<>>
    /\ window = [s \in Sigs |-> 0]
    /\ badRelease = FALSE

\* A lookup that never finds the registered lock.
LookupAlwaysMiss(h) == Nil

\* self._locks.get(route_hash)
Lookup(h) == locks[h]

\* Lines 104-119 up to the first suspension: find or create the lock, then
\* lock.acquire(), which succeeds at once on a free lock without waiters and
\* otherwise queues the caller.
Request(p, r) ==
    /\ pc[p] = "idle"
    /\ UNCHANGED <<rtVars, itVars, stVars, clVars, hcVars>>
    /\ LET h == HashOf[r]
           found == Lookup(h)
           l == IF found # Nil THEN found
                ELSE CHOOSE x \in LockIds :
                        /\ ~Referenced(x, lockOf, timers)
                        /\ \A y \in LockIds : ~Referenced(y, lockOf, timers) => x <= y
           free == found = Nil \/ (~locked[l] /\ waiters[l] = <<>>)
       IN /\ route' = [route EXCEPT ![p] = r]
          /\ lockOf' = [lockOf EXCEPT ![p] = l]
          /\ locks' = [locks EXCEPT ![h] = l]
          /\ unlockFlag' = [unlockFlag EXCEPT ![p] = TRUE]
          /\ attempt' = [attempt EXCEPT ![p] = 0]
          /\ IF free
             THEN /\ locked' = [locked EXCEPT ![l] = TRUE]
                  /\ holder' = [holder EXCEPT ![l] = p]
                  /\ woken' = [woken EXCEPT ![l] = FALSE]
                  /\ waiters' = [waiters EXCEPT ![l] = <<>>]
                  /\ pc' = [pc EXCEPT ![p] = "http"]
             ELSE /\ waiters' = [waiters EXCEPT ![l] = Append(@, p)]
                  /\ pc' = [pc EXCEPT ![p] = "waiting"]
                  /\ UNCHANGED <<locked, holder, woken>>
    /\ UNCHANGED <<resp, sleepFor, result, timers, window, badRelease>>

\* The waiter whose future release() resolved resumes inside acquire() and
\* starts its first HTTP call.
Acquired(p) ==
    /\ pc[p] = "waiting"
    /\ UNCHANGED <<rtVars, itVars, stVars, clVars, hcVars>>
    /\ LET l == lockOf[p]
       IN /\ woken[l]
          /\ Head(waiters[l]) = p
          /\ waiters' = [waiters EXCEPT ![l] = Tail(@)]
          /\ woken' = [woken EXCEPT ![l] = FALSE]
          /\ locked' = [locked EXCEPT ![l] = TRUE]
          /\ holder' = [holder EXCEPT ![l] = p]
    /\ pc' = [pc EXCEPT ![p] = "http"]
    /\ UNCHANGED <<route, lockOf, attempt, unlockFlag, resp, sleepFor, result,
                   locks, timers, window, badRelease>>

\* request() ends: MaybeUnlock.__exit__ releases the lock when _unlock is
\* still set; an exception raised by lock.release() replaces the outcome.
\* `tm` is the bag of timers after this step, `flag` the value of _unlock,
\* `r` the response being handled and `zero` whether it exhausted the quota.
Finish(p, kind, r, zero, flag, tm) ==
    LET l == lockOf[p]
        lockOfN == [lockOf EXCEPT ![p] = Nil]
        releases == flag /\ locked[l]
        raises == flag /\ ~locked[l]
        dead == ~Referenced(l, lockOfN, tm)
    IN /\ pc' = [pc EXCEPT ![p] = "done"]
       /\ lockOf' = lockOfN
       /\ result' = [result EXCEPT ![p] =
                        [kind |-> IF raises THEN "RuntimeError" ELSE kind,
                         status |-> r.status, n |-> r.n, zero |-> zero,
                         missing |-> kind = "KeyError"]]
       /\ locked' = [locked EXCEPT ![l] = IF releases \/ dead THEN FALSE ELSE @]
       /\ holder' = [holder EXCEPT ![l] = IF releases \/ dead THEN Nil ELSE @]
       /\ woken' = [woken EXCEPT ![l] =
                        IF releases THEN waiters[l] # <<>> ELSE @]
       /\ badRelease' = (badRelease \/ raises \/ (releases /\ holder[l] # p))
       /\ timers' = tm
       /\ locks' = Purged(locks, lockOfN, tm)
       /\ route' = [route EXCEPT ![p] = NoRoute]
       /\ attempt' = [attempt EXCEPT ![p] = 0]
       /\ unlockFlag' = [unlockFlag EXCEPT ![p] = TRUE]
       /\ resp' = [resp EXCEPT ![p] = NoResp]
       /\ sleepFor' = [sleepFor EXCEPT ![p] = 0]

\* Lines 122-138: the response of the HTTP call in flight arrives.
Respond(p, status, hdr) ==
    /\ pc[p] = "http"
    /\ UNCHANGED <<rtVars, itVars, stVars, clVars, hcVars>>
    /\ LET r == [status |-> status, n |-> attempt[p] + 1]
           zero == hdr.remaining = "0"
           exhausted == QuotaExhausted(status, hdr.remaining)
           sig == SigOf[route[p]]
       IN IF exhausted /\ ~hdr.hasReset
          THEN \* r.headers["Ratelimit-Reset"] raises KeyError before defer()
               /\ Finish(p, "KeyError", r, zero, unlockFlag[p], timers)
               /\ UNCHANGED <<waiters, window>>
          ELSE LET flag == IF exhausted THEN FALSE ELSE unlockFlag[p]
                   delta == Max(hdr.reset, 0)
                   tm == IF exhausted
                         THEN BagAdd(timers,
                                [lock |-> lockOf[p], left |-> delta, owner |-> p,
                                 sig |-> sig])
                         ELSE timers
               IN /\ exhausted => TimerTotal < MaxTimers
                  /\ window' = IF exhausted /\ IsSuccess(status)
                               THEN [window EXCEPT ![sig] = Max(@, delta)]
                               ELSE window
                  /\ IF IsSuccess(status)
                     THEN /\ Finish(p, "return", r, zero, flag, tm)
                          /\ UNCHANGED waiters
                     ELSE IF IsTransient(status)
                     THEN /\ pc' = [pc EXCEPT ![p] = "sleep"]
                          /\ sleepFor' = [sleepFor EXCEPT ![p] = Backoff(attempt[p])]
                          /\ resp' = [resp EXCEPT ![p] = r]
                          /\ unlockFlag' = [unlockFlag EXCEPT ![p] = flag]
                          /\ timers' = tm
                          /\ UNCHANGED <<route, lockOf, attempt, result,
                                         locks, locked, waiters, woken, holder,
                                         badRelease>>
                     ELSE /\ Finish(p, "HTTPException", r, zero, flag, tm)
                          /\ UNCHANGED waiters

\* self._session.request(...) raises (connection error, timeout).
CallFails(p) ==
    /\ pc[p] = "http"
    /\ UNCHANGED <<rtVars, itVars, stVars, clVars, hcVars>>
    /\ Finish(p, "ClientError", resp[p], FALSE, unlockFlag[p], timers)
    /\ UNCHANGED <<waiters, window>>

\* The sleep is over: `continue`.  Either the next attempt starts, or the
\* loop is exhausted and line 140 raises HTTPException(r, data).
Wake(p) ==
    /\ pc[p] = "sleep"
    /\ UNCHANGED <<rtVars, itVars, stVars, clVars, hcVars>>
    /\ IF attempt[p] + 1 < AttemptBudget
       THEN /\ attempt' = [attempt EXCEPT ![p] = @ + 1]
            /\ pc' = [pc EXCEPT ![p] = "http"]
            /\ sleepFor' = [sleepFor EXCEPT ![p] = 0]
            /\ UNCHANGED <<route, lockOf, unlockFlag, resp, result,
                           locks, locked, waiters, woken, holder, timers,
                           window, badRelease>>
       ELSE /\ Finish(p, "HTTPException", resp[p], FALSE, unlockFlag[p], timers)
            /\ UNCHANGED <<waiters, window>>

\* The loop runs a due call_later handle: lock.release().  On an unlocked
\* lock release() raises RuntimeError, which the loop logs.
TimerFires(t) ==
    /\ t \in DOMAIN timers
    /\ UNCHANGED <<rtVars, itVars, stVars, clVars, hcVars>>
    /\ t.left = 0
    /\ LET l == t.lock
           tm == BagRemove(timers, t)
       IN /\ timers' = tm
          /\ locked' = [locked EXCEPT ![l] = FALSE]
          /\ holder' = [holder EXCEPT ![l] = Nil]
          /\ woken' = [woken EXCEPT ![l] = IF locked[l] THEN waiters[l] # <<>> ELSE @]
          /\ badRelease' = (badRelease \/ ~locked[l] \/ holder[l] # t.owner)
          /\ locks' = Purged(locks, lockOf, tm)
    /\ UNCHANGED <<pc, route, lockOf, attempt, unlockFlag, resp, sleepFor,
                   result, waiters, window>>

\* One second passes.
Tick ==
    /\ \/ \E t \in DOMAIN timers : t.left > 0
       \/ \E s \in Sigs : window[s] > 0
    /\ UNCHANGED <<rtVars, itVars, stVars, clVars, hcVars>>
    /\ timers' = TickTimers(timers)
    /\ window' = [s \in Sigs |-> Max(window[s] - 1, 0)]
    /\ UNCHANGED <<pc, route, lockOf, attempt, unlockFlag, resp, sleepFor,
                   result, locks, locked, waiters, woken, holder, badRelease>>

HttpNext ==
    \/ \E p \in Procs : \E r \in RoutesOf(p) : Request(p, r)
    \/ \E p \in Procs : Acquired(p)
    \/ \E p \in Procs, s \in Statuses, hdr \in Headers : Respond(p, s, hdr)
    \/ \E p \in Procs : CallFails(p)
    \/ \E p \in Procs : Wake(p)
    \/ \E t \in DOMAIN timers : TimerFires(t)
    \/ Tick

HttpIdle ==
    /\ pc = <<>> /\ route = <<>> /\ lockOf = <<>> /\ attempt = <<>>
    /\ unlockFlag = <<>> /\ resp = <<>> /\ sleepFor = <<>> /\ result = <<>>
    /\ locks = <<>> /\ locked = <<>> /\ waiters = <<>>
    /\ woken = <<>> /\ holder = <<>> /\ timers = <<>> /\ window = <<>>
    /\ badRelease = FALSE

(***************************************************************************)
(* Key-batched iteration: chunks (twitch/utils.py), GameIterator and       *)
(* UserIterator (twitch/iterators.py).  A key is a number; a record of a   *)
(* response names the key it answers.  The dispatcher call of a refill is  *)
(* one step: it returns a page or raises.                                  *)
(***************************************************************************)
BatchSize == 100
MaxDup == 1
MaxFaults == 1
MaxCalls == 4

\* Sizes of the key lists an iterator is constructed with, around the
\* batch size.
IdCounts == {0, 1, 2, BatchSize, BatchSize + 1, 2 * BatchSize, 2 * BatchSize + 50}
NameCounts == {0, 1, BatchSize + 1}

\* The list 1, 2, ..., n followed by d more copies of its first keys.
KeyList(n, d) == [i \in 1..(n + d) |-> IF i <= n THEN i ELSE i - n]

NoArg == [some |-> FALSE, lst |-> <<>>]
Arg(lst) == [some |-> TRUE, lst |-> lst]

Reverse(s) == [k \in 1..Len(s) |-> s[Len(s) + 1 - k]]

\* A list() that keeps every element, duplicates included.
ListKeepsDuplicates(lst, order) == IF order = "fwd" THEN lst ELSE Reverse(lst)

\* list(set(lst)): the distinct elements, in the iteration order of the set.
\* That order is not specified; the model takes the order of first
\* occurrence ("fwd") or its reverse ("rev").
ListSet(lst, order) ==
    LET idx == [i \in 1..Len(lst) |-> <<i, lst[i]>>]
        IsFirst(e) == \A j \in 1..(e[1] - 1) : lst[j] # e[2]
        kept == SelectSeq(idx, IsFirst)
        fwd == [k \in 1..Len(kept) |-> kept[k][2]]
    IN IF order = "fwd" THEN fwd ELSE Reverse(fwd)

\* A generator of chunks(lst, n): "new" before its first next(), "susp"
\* while suspended at the yield of lst[i:i+n], "done" once it has returned;
\* "none" stands for None in place of a generator.
NoGen == [lst |-> <<>>, i |-> 0, n |-> 0, st |-> "none"]

\* A chunks() that yields the whole list as one chunk.
chunksUnbounded(lst, n) ==
    [lst |-> lst, i |-> 0, n |-> Max(n, Len(lst)), st |-> "new"]

chunks(lst, n) == [lst |-> lst, i |-> 0, n |-> n, st |-> "new"]

\* islice(lst, i, j) as the list of its elements.
islice(lst, i, j) == SubSeq(lst, i + 1, Min(j, Len(lst)))

\* A chunks() that never stops at the end of the list: after the last
\* chunk it yields the last chunk again.
GenNextRepeatsLast(g) ==
    IF g.st = "new" /\ Len(g.lst) > 0
    THEN [g |-> [g EXCEPT !.st = "susp"], out |-> islice(g.lst, 0, g.n)]
    ELSE IF g.st = "susp"
    THEN [g |-> [g EXCEPT !.i = IF g.i + g.n >= Len(g.lst) THEN g.i ELSE g.i + g.n],
          out |-> islice(g.lst, g.i, g.i + g.n)]
    ELSE [g |-> [g EXCEPT !.st = "done"], out |-> <<>>]

\* A chunks() that starts over from the first chunk once it has returned.
GenNextRestarts(g) ==
    IF g.st = "new" \/ g.st = "done"
    THEN IF Len(g.lst) = 0
         THEN [g |-> [g EXCEPT !.st = "done"], out |-> <<>>]
         ELSE [g |-> [g EXCEPT !.st = "susp", !.i = 0],
               out |-> islice(g.lst, 0, g.n)]
    ELSE IF g.i + g.n >= Len(g.lst)
         THEN [g |-> [g EXCEPT !.st = "done"], out |-> <<>>]
         ELSE [g |-> [g EXCEPT !.i = g.i + g.n],
               out |-> islice(g.lst, g.i + g.n, g.i + g.n + g.n)]

\* next(g, None) on a chunks generator: the generator after the call and the
\* chunk it yielded (<<>> for None; a yielded chunk is never empty).
GenNext(g) ==
    IF g.st = "new"
    THEN IF g.i >= Len(g.lst)
         THEN [g |-> [g EXCEPT !.st = "done"], out |-> <<>>]
         ELSE [g |-> [g EXCEPT !.st = "susp"],
               out |-> islice(g.lst, g.i, g.i + g.n)]
    ELSE IF g.st = "susp"
    THEN IF g.i + g.n >= Len(g.lst)
         THEN [g |-> [g EXCEPT !.st = "done"], out |-> <<>>]
         ELSE [g |-> [g EXCEPT !.i = g.i + g.n],
               out |-> islice(g.lst, g.i + g.n, g.i + g.n + g.n)]
    ELSE [g |-> g, out |-> <<>>]

NoOut == [kind |-> None, item |-> <<>>]

\* The records of a response that answers every requested key, in the
\* order requested; a request without keys is answered by one record.
FullPage(ids, names) ==
    IF ids = <<>> /\ names = <<>> THEN << <<"self", 0>> >>
    ELSE [k \in 1..Len(ids) |-> <<"id", ids[k]>>]
         \o [k \in 1..Len(names) |-> <<"name", names[k]>>]

\* The outcomes of one dispatcher call: a page with a record per key, a page
\* with the first record missing, an empty page, or an HTTP error.
Outcomes == {"full", "short", "empty", "error"}

Page(outcome, ids, names) ==
    IF outcome = "full" THEN FullPage(ids, names)
    ELSE IF outcome = "short" THEN Tail(FullPage(ids, names))
    ELSE <<>>

ItInit ==
    /\ it_kind \in {"game", "user"}
    /\ \E n \in IdCounts, m \in NameCounts, d \in 0..MaxDup :
       \E hasIds, hasNames \in BOOLEAN :
          it_given = [ids |-> IF hasIds THEN Arg(KeyList(n, Min(d, n))) ELSE NoArg,
                      names |-> IF hasNames THEN Arg(KeyList(m, Min(d, m))) ELSE NoArg]
    /\ it_state = "new"
    /\ it_ids = NoGen
    /\ it_names = NoGen
    /\ it_queue = <<>>
    /\ it_reqs = <<>>
    /\ it_out = NoOut
    /\ it_got = 0
    /\ it_faults = 0

\* GameIterator.__init__
GameInit(order) ==
    /\ it_kind = "game"
    /\ it_state = "new"
    /\ UNCHANGED <<rtVars, httpVars, stVars, clVars, hcVars>>
    /\ IF ~it_given.ids.some /\ ~it_given.names.some
       THEN \* TypeError("Missing one of positional arguments: 'ids', 'names'")
            /\ it_state' = "invalid"
            /\ it_out' = [kind |-> "TypeError", item |-> <<>>]
            /\ UNCHANGED <<it_ids, it_names>>
       ELSE /\ it_state' = "ready"
            /\ it_ids' = chunks(ListSet(it_given.ids.lst, order), BatchSize)
            /\ it_names' = chunks(ListSet(it_given.names.lst, order), BatchSize)
            /\ UNCHANGED it_out
    /\ UNCHANGED <<it_kind, it_given, it_queue, it_reqs, it_got, it_faults>>

\* UserIterator.__init__
UserInit(order) ==
    /\ it_kind = "user"
    /\ it_state = "new"
    /\ UNCHANGED <<rtVars, httpVars, stVars, clVars, hcVars>>
    /\ it_state' = "ready"
    /\ it_ids' = IF it_given.ids.some /\ it_given.ids.lst # <<>>
                 THEN chunks(ListSet(it_given.ids.lst, order), BatchSize)
                 ELSE NoGen
    /\ it_names' = IF it_given.names.some /\ it_given.names.lst # <<>>
                   THEN chunks(ListSet(it_given.names.lst, order), BatchSize)
                   ELSE NoGen
    /\ UNCHANGED <<it_kind, it_given, it_queue, it_reqs, it_out, it_got, it_faults>>

\* A get_nowait() that takes the newest record of the queue.
DeliverNewest(q) ==
    IF q = <<>>
    THEN /\ it_queue' = q
         /\ it_out' = [kind |-> "NoMoreItems", item |-> <<>>]
         /\ UNCHANGED it_got
    ELSE /\ it_queue' = SubSeq(q, 1, Len(q) - 1)
         /\ it_out' = [kind |-> "item", item |-> q[Len(q)]]
         /\ it_got' = it_got + 1

\* The end of next(): self.<queue>.get_nowait(), or NoMoreItems.
Deliver(q) ==
    IF q = <<>>
    THEN /\ it_queue' = q
         /\ it_out' = [kind |-> "NoMoreItems", item |-> <<>>]
         /\ UNCHANGED it_got
    ELSE /\ it_queue' = Tail(q)
         /\ it_out' = [kind |-> "item", item |-> Head(q)]
         /\ it_got' = it_got + 1

\* A dispatcher call with the chunks ids and names (get_games / get_users)
\* inside next(): the error propagates out of next(), a page is queued and
\* next() ends with Deliver.
Fetch(outcome, ids, names) ==
    /\ outcome # "full" => it_faults < MaxFaults
    /\ it_reqs' = Append(it_reqs, [ids |-> ids, names |-> names,
                                  outcome |-> outcome])
    /\ it_faults' = IF outcome = "full" THEN it_faults ELSE it_faults + 1
    /\ IF outcome = "error"
       THEN /\ it_out' = [kind |-> "HTTPException", item |-> <<>>]
            /\ UNCHANGED <<it_queue, it_got>>
       ELSE Deliver(it_queue \o Page(outcome, ids, names))

\* GameIterator.next with fill_games
GameNext(outcome) ==
    /\ it_kind = "game"
    /\ it_state = "ready"
    /\ UNCHANGED <<rtVars, httpVars, stVars, clVars, hcVars>>
    /\ UNCHANGED <<it_kind, it_given, it_state>>
    /\ IF it_queue # <<>>
       THEN /\ outcome = "full"
            /\ Deliver(it_queue)
            /\ UNCHANGED <<it_ids, it_names, it_reqs, it_faults>>
       ELSE LET a == GenNext(it_ids)
                b == GenNext(it_names)
            IN /\ it_ids' = a.g
               /\ it_names' = b.g
               /\ IF a.out = <<>> /\ b.out = <<>>
                  THEN /\ outcome = "full"
                       /\ Deliver(it_queue)
                       /\ UNCHANGED <<it_reqs, it_faults>>
                  ELSE Fetch(outcome, a.out, b.out)

\* UserIterator.next with fill_users and _get_elements
UserNext(outcome) ==
    /\ it_kind = "user"
    /\ it_state = "ready"
    /\ UNCHANGED <<rtVars, httpVars, stVars, clVars, hcVars>>
    /\ UNCHANGED <<it_kind, it_given, it_state>>
    /\ IF it_queue # <<>>
       THEN /\ outcome = "full"
            /\ Deliver(it_queue)
            /\ UNCHANGED <<it_ids, it_names, it_reqs, it_faults>>
       ELSE IF it_ids.st = "none" /\ it_names.st = "none"
       THEN \* `return await self._get_elements(self.ids, self.logins)`:
            \* a call without keys, on every next() that finds the queue
            \* empty
            /\ Len(it_reqs) < MaxCalls
            /\ Fetch(outcome, <<>>, <<>>)
            /\ UNCHANGED <<it_ids, it_names>>
       ELSE LET a == IF it_ids.st # "none" THEN GenNext(it_ids)
                     ELSE [g |-> it_ids, out |-> <<>>]
                b == IF it_names.st # "none" THEN GenNext(it_names)
                     ELSE [g |-> it_names, out |-> <<>>]
            IN /\ it_ids' = a.g
               /\ it_names' = b.g
               /\ IF a.out = <<>> /\ b.out = <<>>
                  THEN /\ outcome = "full"
                       /\ Deliver(it_queue)
                       /\ UNCHANGED <<it_reqs, it_faults>>
                  ELSE IF a.out # <<>> /\ b.out # <<>>
                  THEN \* `len(ids)`: an islice has no len(), TypeError
                       /\ outcome = "full"
                       /\ it_out' = [kind |-> "TypeError", item |-> <<>>]
                       /\ UNCHANGED <<it_queue, it_reqs, it_got, it_faults>>
                  ELSE Fetch(outcome, a.out, b.out)

(***************************************************************************)
(* Cursor iteration: StreamIterator (twitch/iterators.py).  A cursor is a  *)
(* number (0 for None); the page requested after cursor c holds the        *)
(* records <<c, 1>>, <<c, 2>>, ... and, when the response carries a        *)
(* cursor, the cursor c + 1.                                               *)
(***************************************************************************)
PageLimit == 100
MaxUserIds == 100
MaxUserLogins == 100
MaxGameIds == 10
MaxLanguages == 100
MaxPages == 2
MaxFilterCalls == 1
MaxBuffered == 1
MaxFilterSeq == 2

NoLimit == [some |-> FALSE, v |-> 0]
Limit(n) == [some |-> TRUE, v |-> n]

\* The limits a StreamIterator is constructed with.
Limits == {NoLimit} \cup {Limit(n) : n \in {-1, 0, 1, PageLimit, PageLimit + 1, PageLimit + 50}}

FilterFields == {"user_ids", "user_logins", "game_ids", "languages"}
NoFilter == [f \in FilterFields |-> NoArg]

\* The arguments of a filter() call: nothing, one list (empty, at its bound
\* or one over it), or every list at its bound.
FilterBound ==
    [f \in FilterFields |->
        IF f = "user_ids" THEN MaxUserIds
        ELSE IF f = "user_logins" THEN MaxUserLogins
        ELSE IF f = "game_ids" THEN MaxGameIds
        ELSE MaxLanguages]

FilterArgs ==
    {NoFilter}
    \cup {[NoFilter EXCEPT ![f] = Arg(KeyList(FilterBound[f] + d, 0))] :
             f \in FilterFields, d \in {0, 1}}
    \cup {[NoFilter EXCEPT !.user_ids = Arg(<<>>)]}
    \cup {[f \in FilterFields |-> Arg(KeyList(FilterBound[f], 0))]}
    \cup {[f \in FilterFields |->
             Arg(KeyList(IF f = "languages" THEN MaxLanguages + 1 ELSE 1, 0))]}

\* A _get_retrieve that asks for a full page whatever the budget.
get_retrieve_full(limit) == PageLimit

\* StreamIterator._get_retrieve: the value of self.retrieve
get_retrieve(limit) ==
    IF ~limit.some \/ limit.v > PageLimit THEN PageLimit ELSE limit.v

\* A budget that a page leaves as it was.
BudgetAfterKeeps(limit, size) == limit

\* A budget that is decremented by every page and never forced to zero.
BudgetAfterDecrement(limit, size) ==
    IF limit.some THEN Limit(limit.v - size) ELSE limit

\* `len(data) < 100` ... `self.limit -= len(data)`
BudgetAfter(limit, size) ==
    IF size < PageLimit THEN Limit(0)
    ELSE IF limit.some THEN Limit(limit.v - size)
    ELSE limit

\* `if resp["pagination"].get("cursor")`
CursorAfter(cursor, hasCursor) == IF hasCursor THEN cursor + 1 ELSE cursor

\* The page sizes a response to `first = retrieve` may have.
PageSizes(retrieve) == {0, 1, retrieve}

StreamPage(cursor, size) == [k \in 1..size |-> <<cursor, k>>]

\* A length test that lets a list of bound + 1 elements pass.
TooManyOffByOne(arg, bound) == arg.some /\ Len(arg.lst) > bound + 1

\* `v and len(v) > bound`
TooMany(arg, bound) == arg.some /\ Len(arg.lst) > bound

StIdle ==
    /\ st_state = None /\ st_given = NoLimit /\ st_limit = NoLimit
    /\ st_cursor = 0
    /\ st_filter = NoFilter /\ st_queue = <<>> /\ st_reqs = <<>>
    /\ st_out = NoOut /\ st_got = 0 /\ st_faults = 0 /\ st_filters = 0

\* StreamIterator.__init__
StInit ==
    /\ st_state = "ready"
    /\ st_given \in Limits
    /\ st_limit = st_given
    /\ st_cursor = 0
    /\ st_filter = NoFilter
    /\ st_queue = <<>>
    /\ st_reqs = <<>>
    /\ st_out = NoOut
    /\ st_got = 0
    /\ st_faults = 0
    /\ st_filters = 0

\* A filter() that replaces the stored filter by the arguments of the call.
filterReplaces(a) ==
    /\ st_filters' = st_filters + 1
    /\ UNCHANGED <<rtVars, httpVars, itVars, clVars, hcVars>>
    /\ UNCHANGED <<st_state, st_given, st_limit, st_cursor, st_queue, st_reqs,
                   st_got, st_faults>>
    /\ IF \/ TooMany(a.user_ids, MaxUserIds)
          \/ TooMany(a.user_logins, MaxUserLogins)
          \/ TooMany(a.game_ids, MaxGameIds)
          \/ TooMany(a.languages, MaxLanguages)
       THEN /\ st_out' = [kind |-> "OverflowError", item |-> a]
            /\ UNCHANGED st_filter
       ELSE /\ st_filter' = a
            /\ st_out' = [kind |-> "self", item |-> a]

\* StreamIterator.filter: the four length tests, then
\* self._filter.update(<the arguments that are lists>)
filter(a) ==
    /\ st_filters' = st_filters + 1
    /\ UNCHANGED <<rtVars, httpVars, itVars, clVars, hcVars>>
    /\ UNCHANGED <<st_state, st_given, st_limit, st_cursor, st_queue, st_reqs,
                   st_got, st_faults>>
    /\ IF \/ TooMany(a.user_ids, MaxUserIds)
          \/ TooMany(a.user_logins, MaxUserLogins)
          \/ TooMany(a.game_ids, MaxGameIds)
          \/ TooMany(a.languages, MaxLanguages)
       THEN /\ st_out' = [kind |-> "OverflowError", item |-> a]
            /\ UNCHANGED st_filter
       ELSE /\ st_filter' = [f \in FilterFields |->
                                IF a[f].some THEN a[f] ELSE st_filter[f]]
            /\ st_out' = [kind |-> "self", item |-> a]

\* StreamIterator.filter, called while at most MaxBuffered records are
\* buffered
StFilter(a) ==
    /\ st_state = "ready"
    /\ st_filters < MaxFilterCalls
    /\ Len(st_queue) <= MaxBuffered
    /\ filter(a)

\* StreamIterator.filter, called up to MaxFilterSeq times on one iterator
\* while at most MaxBuffered records are buffered
StFilterSeq(a) ==
    /\ st_state = "ready"
    /\ st_filters < MaxFilterSeq
    /\ Len(st_queue) <= MaxBuffered
    /\ filter(a)

\* The end of next(): self.streams.get_nowait(), or NoMoreItems.
StDeliver(q) ==
    IF q = <<>>
    THEN /\ st_queue' = q
         /\ st_out' = [kind |-> "NoMoreItems", item |-> <<>>]
         /\ UNCHANGED st_got
    ELSE /\ st_queue' = Tail(q)
         /\ st_out' = [kind |-> "item", item |-> Head(q)]
         /\ st_got' = st_got + 1

\* A refill whose failed dispatcher call moves the cursor on.
StFetchErrorAdvances(retrieve, outcome, size, hasCursor) ==
    /\ st_reqs' = Append(st_reqs, [first |-> retrieve, after |-> st_cursor,
                                   outcome |-> outcome, size |-> size,
                                   cursor |-> hasCursor])
    /\ IF outcome = "error"
       THEN /\ size = 0 /\ ~hasCursor
            /\ st_faults < MaxFaults
            /\ st_faults' = st_faults + 1
            /\ st_out' = [kind |-> "HTTPException", item |-> <<>>]
            /\ st_cursor' = st_cursor + 1
            /\ UNCHANGED <<st_limit, st_queue, st_got>>
       ELSE /\ size \in PageSizes(retrieve)
            /\ st_limit' = BudgetAfter(st_limit, size)
            /\ st_cursor' = CursorAfter(st_cursor, hasCursor)
            /\ StDeliver(st_queue \o StreamPage(st_cursor, size))
            /\ UNCHANGED st_faults

\* The dispatcher call get_streams(first = retrieve, after = self._cursor,
\* **self._filter) inside fill_streams, and what follows it in next(): the
\* error propagates out of next(); a page updates the budget and the
\* cursor, is queued, and next() ends with StDeliver.
StFetch(retrieve, outcome, size, hasCursor) ==
    /\ st_reqs' = Append(st_reqs, [first |-> retrieve, after |-> st_cursor,
                                   outcome |-> outcome, size |-> size,
                                   cursor |-> hasCursor])
    /\ IF outcome = "error"
       THEN /\ size = 0 /\ ~hasCursor
            /\ st_faults < MaxFaults
            /\ st_faults' = st_faults + 1
            /\ st_out' = [kind |-> "HTTPException", item |-> <<>>]
            /\ UNCHANGED <<st_limit, st_cursor, st_queue, st_got>>
       ELSE /\ size \in PageSizes(retrieve)
            /\ st_limit' = BudgetAfter(st_limit, size)
            /\ st_cursor' = CursorAfter(st_cursor, hasCursor)
            /\ StDeliver(st_queue \o StreamPage(st_cursor, size))
            /\ UNCHANGED st_faults

\* StreamIterator.next with fill_streams
StNext(outcome, size, hasCursor) ==
    /\ st_state = "ready"
    /\ UNCHANGED <<rtVars, httpVars, itVars, clVars, hcVars>>
    /\ UNCHANGED <<st_state, st_given, st_filter, st_filters>>
    /\ LET retrieve == get_retrieve(st_limit)
       IN IF st_queue # <<>> \/ ~(retrieve > 0)
          THEN /\ outcome = "page" /\ size = 0 /\ ~hasCursor
               /\ StDeliver(st_queue)
               /\ UNCHANGED <<st_limit, st_cursor, st_reqs, st_faults>>
          ELSE /\ Len(st_reqs) < MaxPages + st_faults
               /\ StFetch(retrieve, outcome, size, hasCursor)

(***************************************************************************)
(* Client.get_game, Client.get_user and Client.get_stream                  *)
(* (twitch/client.py): each builds an iterator, calls its next() once and  *)
(* drops it.  An argument is a key, 0 when it is not given.                *)
(***************************************************************************)
NoCall == [op |-> None, id |-> 0, name |-> 0]

ClIdle == cl_call = NoCall /\ cl_out = NoOut

ClInit ==
    /\ cl_call \in [op : {"get_game", "get_user", "get_stream"},
                    id : {0, 1}, name : {0, 1}]
    /\ cl_out = NoOut

\* A test that never finds both arguments given.
BothGivenNever(id, name) == FALSE

\* `if id and name`
BothGiven(id, name) == id # 0 /\ name # 0

\* `with suppress(NoMoreItems): return await ....next()` ... `return None`
Suppress(out) ==
    IF out.kind = "NoMoreItems" THEN [kind |-> "return", item |-> <<>>] ELSE out

OneKey(k) == IF k # 0 THEN Arg(<<k>>) ELSE NoArg

\* Client.get_game
get_game(outcome) ==
    /\ cl_call.op = "get_game"
    /\ cl_out = NoOut
    /\ UNCHANGED <<rtVars, httpVars, stVars, hcVars, cl_call>>
    /\ IF BothGiven(cl_call.id, cl_call.name)
       THEN /\ outcome = "full"
            /\ cl_out' = [kind |-> "TypeError", item |-> <<>>]
            /\ UNCHANGED itVars
       ELSE IF cl_call.id = 0 /\ cl_call.name = 0
       THEN /\ outcome = "full"
            /\ cl_out' = [kind |-> "return", item |-> <<>>]
            /\ UNCHANGED itVars
       ELSE \* GameIterator(self, ids = [id]).next(), or names = [name]
            LET ids == IF cl_call.id # 0 THEN OneKey(cl_call.id) ELSE NoArg
                names == IF cl_call.id # 0 THEN NoArg ELSE OneKey(cl_call.name)
                a == GenNext(chunks(ListSet(ids.lst, "fwd"), BatchSize))
                b == GenNext(chunks(ListSet(names.lst, "fwd"), BatchSize))
            IN /\ it_kind' = "game"
               /\ it_given' = [ids |-> ids, names |-> names]
               /\ it_state' = "dropped"
               /\ it_ids' = a.g
               /\ it_names' = b.g
               /\ Fetch(outcome, a.out, b.out)
               /\ cl_out' = Suppress(it_out')

\* Client.get_user
get_user(outcome) ==
    /\ cl_call.op = "get_user"
    /\ cl_out = NoOut
    /\ UNCHANGED <<rtVars, httpVars, stVars, hcVars, cl_call>>
    /\ IF BothGiven(cl_call.id, cl_call.name)
       THEN /\ outcome = "full"
            /\ cl_out' = [kind |-> "TypeError", item |-> <<>>]
            /\ UNCHANGED itVars
       ELSE IF cl_call.id = 0 /\ cl_call.name = 0
       THEN /\ outcome = "full"
            /\ cl_out' = [kind |-> "return", item |-> <<>>]
            /\ UNCHANGED itVars
       ELSE \* UserIterator(self, ids = [id]).next(), or logins = [login]
            LET ids == IF cl_call.id # 0 THEN OneKey(cl_call.id) ELSE NoArg
                names == IF cl_call.id # 0 THEN NoArg ELSE OneKey(cl_call.name)
                a == IF ids.some
                     THEN GenNext(chunks(ListSet(ids.lst, "fwd"), BatchSize))
                     ELSE [g |-> NoGen, out |-> <<>>]
                b == IF names.some
                     THEN GenNext(chunks(ListSet(names.lst, "fwd"), BatchSize))
                     ELSE [g |-> NoGen, out |-> <<>>]
            IN /\ it_kind' = "user"
               /\ it_given' = [ids |-> ids, names |-> names]
               /\ it_state' = "dropped"
               /\ it_ids' = a.g
               /\ it_names' = b.g
               /\ Fetch(outcome, a.out, b.out)
               /\ cl_out' = Suppress(it_out')

\* Client.get_stream
get_stream(outcome, size, hasCursor) ==
    /\ cl_call.op = "get_stream"
    /\ cl_out = NoOut
    /\ UNCHANGED <<rtVars, httpVars, itVars, hcVars, cl_call>>
    /\ IF BothGiven(cl_call.id, cl_call.name)
       THEN /\ outcome = "page" /\ size = 0 /\ ~hasCursor
            /\ cl_out' = [kind |-> "TypeError", item |-> <<>>]
            /\ UNCHANGED stVars
       ELSE IF cl_call.id = 0 /\ cl_call.name = 0
       THEN /\ outcome = "page" /\ size = 0 /\ ~hasCursor
            /\ cl_out' = [kind |-> "return", item |-> <<>>]
            /\ UNCHANGED stVars
       ELSE \* self.get_streams(limit = 1).filter(user_ids = [user_id]).next(),
            \* or user_logins = [user_login]
            LET field == IF cl_call.id # 0 THEN "user_ids" ELSE "user_logins"
                key == IF cl_call.id # 0 THEN cl_call.id ELSE cl_call.name
                retrieve == get_retrieve(Limit(1))
                page == StreamPage(0, size)
            IN /\ st_state' = "dropped"
               /\ st_given' = Limit(1)
               /\ st_filter' = [NoFilter EXCEPT ![field] = Arg(<<key>>)]
               /\ st_filters' = 1
               /\ st_reqs' = << [first |-> retrieve, after |-> 0,
                                 outcome |-> outcome, size |-> size,
                                 cursor |-> hasCursor] >>
               /\ IF outcome = "error"
                  THEN /\ size = 0 /\ ~hasCursor
                       /\ st_faults' = 1
                       /\ st_limit' = Limit(1)
                       /\ st_out' = [kind |-> "HTTPException", item |-> <<>>]
                       /\ UNCHANGED <<st_cursor, st_queue, st_got>>
                  ELSE /\ size \in PageSizes(retrieve)
                       /\ st_limit' = BudgetAfter(Limit(1), size)
                       /\ st_cursor' = CursorAfter(0, hasCursor)
                       /\ StDeliver(page)
                       /\ UNCHANGED st_faults
               /\ cl_out' = Suppress(st_out')

StreamSizes == {0, 1, PageLimit, PageLimit + 1, PageLimit + 50}

(***************************************************************************)
(* Client.__init__, HTTPClient.__init__ and the headers request() builds.  *)
(* A Python value is a record of its type and content, so that a string,   *)
(* None and a ClientSession object can stand in each other's place as      *)
(* they do when arguments are passed by position.                          *)
(***************************************************************************)
MaxRequests == 2

PyNone == [t |-> "NoneType", v |-> ""]
PyStr(s) == [t |-> "str", v |-> s]
PySession(n) == [t |-> "ClientSession", v |-> n]
\* The object `aiohttp.ClientSession()` creates.
NewSession == PySession("new")

\* bool(x): None and the empty string are false.
Truthy(x) == ~(x.t = "NoneType" \/ (x.t = "str" /\ x.v = ""))

\* `a or b`
PyOr(a, b) == IF Truthy(a) THEN a ELSE b

\* f"Bearer {token}": the token itself for a string, otherwise the repr of
\* the object.
Bearer(token) ==
    [scheme |-> "Bearer",
     text |-> IF token.t = "str" THEN token.v ELSE "<" \o token.t \o " " \o token.v \o ">"]
NoAuth == [scheme |-> None, text |-> ""]

ClientIds == {"id1", "id2"}
Tokens == {PyNone, PyStr(""), PyStr("tok1"), PyStr("tok2")}
Sessions == {PyNone, PySession("s1"), PySession("s2")}

HcIdle ==
    /\ hc_given = <<>> /\ hc_client_id = "" /\ hc_token = PyNone
    /\ hc_session = PyNone /\ hc_calls = <<>>

\* Before construction: the caller's arguments are chosen, and whether the
\* caller constructs HTTPClient itself or through Client.
HcInit ==
    /\ hc_given \in [via : {"HTTPClient", "Client"}, client_id : ClientIds,
                     token : Tokens, session : Sessions, built : {FALSE}]
    /\ hc_client_id = "" /\ hc_token = PyNone
    /\ hc_session = PyNone /\ hc_calls = <<>>

\* HTTPClient.__init__(self, client_id, session, token)
HTTPClientInit(client_id, session, token) ==
    /\ hc_client_id' = client_id
    /\ hc_token' = token
    /\ hc_session' = PyOr(session, NewSession)

\* The caller builds HTTPClient(client_id, session, token=token).
NewHTTPClient ==
    /\ hc_given.via = "HTTPClient" /\ ~hc_given.built
    /\ HTTPClientInit(hc_given.client_id, hc_given.session, hc_given.token)
    /\ hc_given' = [hc_given EXCEPT !.built = TRUE]
    /\ UNCHANGED hc_calls
    /\ UNCHANGED <<rtVars, httpVars, itVars, stVars, clVars>>

\* Client.__init__(self, client_id, token, session): line 27 is
\* `self.http = HTTPClient(client_id, token, session)`, by position.
NewClient ==
    /\ hc_given.via = "Client" /\ ~hc_given.built
    /\ LET session == PyOr(hc_given.session, NewSession)
       IN HTTPClientInit(hc_given.client_id, hc_given.token, session)
    /\ hc_given' = [hc_given EXCEPT !.built = TRUE]
    /\ UNCHANGED hc_calls
    /\ UNCHANGED <<rtVars, httpVars, itVars, stVars, clVars>>

\* request(), lines 113-122: the headers, then the HTTP call on
\* self._session; a str has no attribute `request`.
RequestHeaders ==
    /\ hc_given.built
    /\ Len(hc_calls) < MaxRequests
    /\ hc_calls' = Append(hc_calls,
          [client_id |-> hc_client_id,
           auth |-> IF Truthy(hc_token) THEN Bearer(hc_token) ELSE NoAuth,
           outcome |-> IF hc_session.t = "ClientSession" THEN "issued"
                       ELSE "AttributeError"])
    /\ UNCHANGED <<hc_given, hc_client_id, hc_token, hc_session>>
    /\ UNCHANGED <<rtVars, httpVars, itVars, stVars, clVars>>

HcNext == NewHTTPClient \/ NewClient \/ RequestHeaders

ItNext ==
    \/ \E order \in {"fwd", "rev"} : GameInit(order)
    \/ \E order \in {"fwd", "rev"} : UserInit(order)
    \/ \E outcome \in Outcomes : GameNext(outcome)
    \/ \E outcome \in Outcomes : UserNext(outcome)
    \/ \E a \in FilterArgs : StFilter(a)
    \/ \E outcome \in {"page", "error"}, size \in StreamSizes, hasCursor \in BOOLEAN :
          StNext(outcome, size, hasCursor)
    \/ \E outcome \in Outcomes : get_game(outcome)
    \/ \E outcome \in Outcomes : get_user(outcome)
    \/ \E outcome \in {"page", "error"}, size \in StreamSizes, hasCursor \in BOOLEAN :
          get_stream(outcome, size, hasCursor)

ItIdle ==
    /\ it_kind = None /\ it_given = <<>> /\ it_state = None /\ it_ids = NoGen
    /\ it_names = NoGen /\ it_queue = <<>> /\ it_reqs = <<>> /\ it_out = NoOut
    /\ it_got = 0 /\ it_faults = 0

InitIter ==
    /\ RtIdle
    /\ HttpIdle
    /\ HcIdle
    /\ \/ ItInit /\ StIdle /\ ClIdle
       \/ ItIdle /\ StInit /\ ClIdle
       \/ ItIdle /\ StIdle /\ ClInit
SpecIter == InitIter /\ [][ItNext]_vars

\* A StreamIterator whose filter is set in several calls, before and after
\* refills that bring an empty page, one record or a full page, or raise.
FilterNext ==
    \/ \E a \in FilterArgs : StFilterSeq(a)
    \/ \E outcome \in {"page", "error"}, size \in {0, 1, PageLimit}, hasCursor \in BOOLEAN :
          StNext(outcome, size, hasCursor)

InitFilter == RtIdle /\ HttpIdle /\ ItIdle /\ StInit /\ ClIdle /\ HcIdle
SpecFilter == InitFilter /\ [][FilterNext]_vars

InitRoute == RtInit /\ HttpIdle /\ ItIdle /\ StIdle /\ ClIdle /\ HcIdle
SpecRoute == InitRoute /\ [][RtNext]_vars

InitHttp == RtIdle /\ HttpInit /\ ItIdle /\ StIdle /\ ClIdle /\ HcIdle
SpecHttp == InitHttp /\ [][HttpNext]_vars

InitHeaders == RtIdle /\ HttpIdle /\ ItIdle /\ StIdle /\ ClIdle /\ HcInit
SpecHeaders == InitHeaders /\ [][HcNext]_vars

(***************************************************************************)
(* Properties of the dispatcher.                                           *)
(***************************************************************************)
InFlight(p) == pc[p] = "http"
Active(p) == lockOf[p] # Nil
SigOfReq(p) == SigOf[route[p]]

\* C1: at most one HTTP call per Endpoint Signature is in flight at any
\* instant, whatever the responses of the requests carry.
C1_OneCallPerSignature ==
    \A p, q \in Procs :
        (p # q /\ InFlight(p) /\ InFlight(q)) => SigOfReq(p) # SigOfReq(q)

\* C2: a request that returns on a 2xx response with Ratelimit-Remaining "0"
\* leaves its gate held, and no request of that signature starts an HTTP
\* call before the announced reset time; a request that returns on a 2xx
\* response with another (or no) Ratelimit-Remaining leaves its gate free.
C2_DeferredRelease ==
    [][\A p \in Procs :
          /\ (pc[p] = "http" /\ pc'[p] = "done" /\ result'[p].kind = "return")
                => IF result'[p].zero
                   THEN locked'[lockOf[p]] /\ holder'[lockOf[p]] = p
                   ELSE ~locked'[lockOf[p]]
          /\ (pc[p] # "http" /\ pc'[p] = "http")
                => window[SigOf[route'[p]]] = 0]_vars

\* C3: lock.release is never invoked on an unlocked gate nor on a gate held
\* by another request's acquisition, and an acquisition never has two
\* releases scheduled.
C3_SingleRelease ==
    /\ ~badRelease
    /\ \A p \in Procs : TimerCount(p) <= 1

\* C4: a request makes at most 5 HTTP attempts, and when the 5th attempt
\* also returns a transient status (the response carrying the rate-limit
\* headers the code reads) request() fails with HTTPException carrying
\* that 5th response.
C4_FiveAttempts ==
    \A p \in Procs :
        /\ attempt[p] + 1 <= 5
        /\ result[p].n <= 5
        /\ (pc[p] = "done" /\ result[p].n = 5 /\ IsTransient(result[p].status)
                /\ ~result[p].missing)
              => result[p].kind = "HTTPException"

\* C5: a response whose status is neither 2xx nor transient (and that
\* carries the rate-limit headers the code reads) ends request() at that
\* attempt with HTTPException carrying that response: no sleep and no
\* further attempt follows it.
C5_NonTransientFails ==
    \A p \in Procs :
        /\ (pc[p] \in {"http", "sleep"} /\ resp[p] # NoResp)
              => IsTransient(resp[p].status)
        /\ (pc[p] = "done" /\ result[p].n > 0
                /\ ~IsSuccess(result[p].status) /\ ~IsTransient(result[p].status)
                /\ ~result[p].missing)
              => result[p].kind = "HTTPException"

\* C7: a request waits for a gate only when a request or a pending release
\* of its own signature exists; with only other signatures active it starts
\* its HTTP call at once.
C7_IndependentSignatures ==
    [][\A p \in Procs :
          (pc[p] = "idle" /\ pc'[p] # "idle")
            => \/ pc'[p] = "http"
               \/ \E q \in Procs \ {p} :
                     Active(q) /\ SigOfReq(q) = SigOf[route'[p]]
               \/ \E t \in DOMAIN timers : t.sig = SigOf[route'[p]]]_vars

C7_Witness ==
    /\ pc[1] \in {"http", "sleep"} /\ attempt[1] > 0
    /\ pc[2] = "http"
    /\ SigOfReq(1) # SigOfReq(2)
    /\ lockOf[1] # lockOf[2]

\* C8: all requests and pending releases of one signature use one gate
\* object.
C8_OneGatePerSignature ==
    /\ \A p, q \in Procs :
          (Active(p) /\ Active(q) /\ SigOfReq(p) = SigOfReq(q))
            => lockOf[p] = lockOf[q]
    /\ \A p \in Procs : \A t \in DOMAIN timers :
          (Active(p) /\ t.sig = SigOfReq(p)) => t.lock = lockOf[p]
    /\ \A t, u \in DOMAIN timers : t.sig = u.sig => t.lock = u.lock

\* Two requests of one signature overlap: the second found the gate of the
\* first, still registered though held or pending release, and waits on it.
C8_Witness ==
    /\ pc[2] = "waiting"
    /\ lockOf[2] = lockOf[1] \/ (pc[1] = "done" /\ \E t \in DOMAIN timers :
                                        t.owner = 1 /\ t.lock = lockOf[2])

\* Two requests of one signature under a fair event loop.  The headers are
\* those that decide how the gate is released: no Ratelimit-Remaining, or
\* "0" without a reset time, with one that is past or due, or with the
\* latest one; the second caller's HTTP call is answered by a status that
\* ends its request.
LiveHeaders == {h \in Headers : h.remaining # "5" /\ h.reset \in {-1, 0, MaxDelta}}
FinalStatuses == {s \in Statuses : ~IsTransient(s)}
LiveResponds(p) ==
    \E s \in (IF p = 1 THEN Statuses ELSE FinalStatuses), hdr \in LiveHeaders :
        Respond(p, s, hdr)

HttpNextLive ==
    \/ Request(1, R_ab)
    \/ Request(2, R_ba)
    \/ \E p \in Procs : Acquired(p)
    \/ \E p \in Procs : LiveResponds(p)
    \/ \E p \in Procs : CallFails(p)
    \/ \E p \in Procs : Wake(p)
    \/ \E t \in DOMAIN timers : TimerFires(t)
    \/ Tick

\* The event loop runs every coroutine that can resume and every due
\* callback, every HTTP call ends (with a response or an exception), and
\* time passes.
HttpFairness ==
    /\ \A p \in Procs :
          /\ WF_vars(Acquired(p))
          /\ WF_vars(CallFails(p) \/ LiveResponds(p))
          /\ WF_vars(Wake(p))
    /\ WF_vars(\E t \in DOMAIN timers : TimerFires(t))
    /\ WF_vars(Tick)
SpecHttpLive == InitHttp /\ [][HttpNextLive]_vars /\ HttpFairness

\* C23: every gate that is locked is eventually released, whichever way
\* the request holding it ends, and every request waiting for a gate
\* eventually acquires it; no gate stays locked forever.
C23_GatesReleased ==
    /\ \A l \in LockIds : locked[l] ~> ~locked[l]
    /\ \A p \in Procs : (pc[p] = "waiting") ~> (pc[p] = "http")

\* A request waits on the gate of a request that has returned and left the
\* release to a timer that is not yet due.
C23_Witness ==
    /\ pc[1] = "done" /\ result[1].kind = "return" /\ result[1].zero
    /\ pc[2] = "waiting"
    /\ locked[lockOf[2]]
    /\ \E t \in DOMAIN timers : t.lock = lockOf[2] /\ t.left > 0

\* Request p has received a 429 as its first response and nothing but
\* transient responses without a deferred release since: it is in the
\* backoff sleep or in a later attempt.
After429(p) ==
    /\ pc[p] \in {"sleep", "http"}
    /\ resp[p].status = 429
    /\ unlockFlag[p]

\* C24: a 429 response schedules no deferred release, whatever its
\* Ratelimit-Remaining; the request keeps holding the gate through the
\* backoff sleep and the following attempt; and when the request fails
\* after 429 responses alone the gate is released at once.
C24_NoDeferOn429 ==
    [][\A p \in Procs :
          /\ (pc[p] = "http" /\ pc'[p] = "sleep" /\ resp'[p].status = 429)
                => /\ timers' = timers
                   /\ unlockFlag'[p] = unlockFlag[p]
          /\ (After429(p) /\ locked[lockOf[p]] /\ holder[lockOf[p]] = p
                /\ pc'[p] \in {"sleep", "http"})
                => /\ locked'[lockOf[p]]
                   /\ holder'[lockOf[p]] = p
          /\ (After429(p) /\ pc[p] = "sleep" /\ pc'[p] = "done")
                => /\ result'[p].kind = "HTTPException"
                   /\ ~locked'[lockOf[p]]]_vars

\* Request p runs its attempts under the gate acquisition it made.
HoldsGate(p) == locked[lockOf[p]] /\ holder[lockOf[p]] = p

C25_SameAcquisition ==
    \A p \in Procs : pc[p] \in {"http", "sleep"} => HoldsGate(p)

C25_ReturnsKth ==
    \A p \in Procs :
        (pc[p] = "http" /\ pc'[p] = "done" /\ IsSuccess(result'[p].status)
            /\ ~result'[p].missing)
          => /\ result'[p].kind = "return"
             /\ result'[p].n = attempt[p] + 1
             /\ attempt[p] > 0 => (resp[p].n = attempt[p] /\ IsTransient(resp[p].status))

\* C25: when the first k-1 attempts (1 <= k <= 5) are answered by transient
\* statuses and the k-th by a 2xx status (the responses carrying the
\* rate-limit headers the code reads), request() returns the k-th response
\* after exactly k HTTP calls, all made under the one gate acquisition.
C25_RetryThenSuccess == []C25_SameAcquisition /\ [][C25_ReturnsKth]_vars

\* C26: the backoff sleep after a transient response to attempt index a is
\* 1 + 2*a seconds, and a sleep occurs only between two attempts (1, 3, 5,
\* 7 seconds): none follows the fifth attempt.
C26_BackoffBetweenAttempts ==
    \A p \in Procs :
        pc[p] = "sleep" =>
            /\ sleepFor[p] = 1 + 2 * attempt[p]
            /\ resp[p].n = attempt[p] + 1
            /\ resp[p].n < AttemptBudget
            /\ sleepFor[p] \in {1, 3, 5, 7}

\* The gate of every pending release is the registered gate of its
\* signature, and the registry holds no gate that has neither a request
\* using it nor a pending release.
C27_Registry ==
    /\ \A t \in DOMAIN timers : \A r \in RouteSet :
          SigOf[r] = t.sig => locks[HashOf[r]] = t.lock
    /\ \A h \in Hashes :
          locks[h] # Nil => Referenced(locks[h], lockOf, timers)

\* A request arriving while a locked gate of its signature awaits its
\* deferred release takes that gate and blocks.
C27_Arrival ==
    \A p \in Procs : \A t \in DOMAIN timers :
        (pc[p] = "idle" /\ pc'[p] # "idle" /\ t.sig = SigOf[route'[p]]
            /\ locked[t.lock])
          => /\ lockOf'[p] = t.lock
             /\ pc'[p] = "waiting"

\* C27: a gate that is locked with a pending deferred release stays the
\* registered gate of its signature until the timer fires, so that a
\* request of that signature arriving after the first request() returned
\* obtains that gate and blocks; and a gate without holder, waiter and
\* pending timer is not kept by the registry.
C27_GateRegistered == []C27_Registry /\ [][C27_Arrival]_vars

\* The first request has returned and no other has arrived: only the
\* timer that is not yet due refers to the locked gate, which is still the
\* registered gate of the signature.
C27_Witness ==
    /\ pc[1] = "done" /\ pc[2] = "idle"
    /\ \E t \in DOMAIN timers :
          /\ t.owner = 1 /\ t.left > 0
          /\ locked[t.lock]
          /\ locks[HashOf[R_ab]] = t.lock
          /\ ENABLED Request(2, R_ba)

(***************************************************************************)
(* Properties of Route.                                                    *)
(***************************************************************************)
\* C6: a Route built from a permutation of a parameter list has the same
\* Endpoint Signature (repr) and the same hash, the key of the gate.
C6_PermutationInvariant ==
    /\ RouteRepr(rt_route) = RouteRepr(rt_first)
    /\ RouteHash(rt_route) = RouteHash(rt_first)

\* A list of three pairs in another order than first given, one of them a
\* string value that quote() changes.
C6_Witness ==
    /\ Len(rt_params) >= 3
    /\ rt_route.params # rt_first.params
    /\ \E i \in 1..Len(rt_params) :
          rt_params[i][2].t = "str" /\ rt_route.params[i][2] # rt_params[i][2]

(***************************************************************************)
(* Properties of key-batched iteration.                                    *)
(***************************************************************************)
Range(s) == {s[i] : i \in DOMAIN s}
Unique(s) == Cardinality(Range(s)) = Len(s)
CeilDiv(a, b) == (a + b - 1) \div b

\* The chunks of ids (of names) requested so far, one after the other.
RequestedIds == Concat([k \in DOMAIN it_reqs |-> it_reqs[k].ids])
RequestedNames == Concat([k \in DOMAIN it_reqs |-> it_reqs[k].names])

\* A GameIterator over unique IDs and no names, every response so far
\* holding one record per requested key.
C9_Case ==
    /\ it_kind = "game"
    /\ it_state = "ready"
    /\ it_given.ids.some
    /\ it_given.names.lst = <<>>
    /\ Unique(it_given.ids.lst)
    /\ it_faults = 0

C9_Batches ==
    C9_Case =>
        LET N == Len(it_given.ids.lst)
            calls == Len(it_reqs)
        IN /\ calls <= CeilDiv(N, 100)
           /\ \A k \in 1..calls :
                 /\ it_reqs[k].names = <<>>
                 /\ Len(it_reqs[k].ids) = IF k < CeilDiv(N, 100) THEN 100
                                          ELSE N - 100 * (k - 1)
                 /\ Range(it_reqs[k].ids) \subseteq Range(it_given.ids.lst)
                 /\ \A l \in 1..(k - 1) :
                       Range(it_reqs[k].ids) \cap Range(it_reqs[l].ids) = {}
           /\ it_got <= N
           /\ it_out.kind \in {None, "item", "NoMoreItems"}
           /\ (it_out.kind = "NoMoreItems" \/ it_got = N) =>
                 /\ calls = CeilDiv(N, 100)
                 /\ it_got = N
                 /\ Range(RequestedIds) = Range(it_given.ids.lst)

C9_AfterLast ==
    (C9_Case /\ it_got = Len(it_given.ids.lst) /\ it_out' # it_out) =>
        /\ it_out'.kind = "NoMoreItems"
        /\ it_reqs' = it_reqs

\* C9: a GameIterator over N unique IDs, the service returning one record
\* per requested key, issues ceil(N/100) dispatcher calls in all; their
\* batches are disjoint, cover the N IDs and have size 100 except possibly
\* the last; the next() made after the N records are consumed raises
\* NoMoreItems without a further dispatcher call.
C9_KeyBatches == []C9_Batches /\ [][C9_AfterLast]_vars

C9_Witness ==
    /\ C9_Case
    /\ Len(it_given.ids.lst) = 250
    /\ Len(it_reqs) = 3
    /\ Len(it_reqs[1].ids) = 100
    /\ Len(it_reqs[2].ids) = 100
    /\ Len(it_reqs[3].ids) = 50
    /\ it_got = 250
    /\ it_out.kind = "NoMoreItems"

\* C10: across all dispatcher calls of one GameIterator or UserIterator,
\* every distinct key is requested at most once, duplicates in the given
\* ids or names (logins) notwithstanding.
C10_KeysRequestedOnce ==
    it_state = "ready" => Unique(RequestedIds) /\ Unique(RequestedNames)

C10_Witness ==
    /\ it_kind = "user"
    /\ ~Unique(it_given.ids.lst)
    /\ Len(it_given.ids.lst) > 100
    /\ Len(it_reqs) >= 2
    /\ Range(RequestedIds) = Range(it_given.ids.lst)

(***************************************************************************)
(* Properties of cursor iteration.                                         *)
(***************************************************************************)
Last(s) == s[Len(s)]

\* A step of next() of a StreamIterator that issued a dispatcher call.
StCalled == st_state = "ready" /\ st_reqs' # st_reqs

\* A step of next() (any step of the iterator that is not a filter() call).
StNextStep == st_state = "ready" /\ st_filters' = st_filters

ShortPageSeen ==
    \E k \in DOMAIN st_reqs :
        st_reqs[k].outcome = "page" /\ st_reqs[k].size < 100

\* C11: a refill asks for min(remaining budget, 100) items, 100 when the
\* budget is None, after the stored cursor; with a budget <= 0 next()
\* issues no dispatcher call and raises NoMoreItems.
C11_RefillSize ==
    [][/\ StCalled =>
             /\ st_reqs' = Append(st_reqs, Last(st_reqs'))
             /\ Last(st_reqs').first =
                   (IF st_limit.some THEN Min(st_limit.v, 100) ELSE 100)
             /\ Last(st_reqs').first > 0
             /\ Last(st_reqs').after = st_cursor
       /\ (st_limit.some /\ st_limit.v <= 0) =>
             /\ ~StCalled
             /\ (StNextStep /\ st_queue = <<>>) => st_out'.kind = "NoMoreItems"
      ]_vars

C11_Witness ==
    /\ st_given = Limit(150)
    /\ Len(st_reqs) = 2
    /\ st_reqs[1].first = 100 /\ st_reqs[1].after = 0
    /\ st_reqs[2].first = 50 /\ st_reqs[2].after = 1
    /\ st_limit = Limit(0)
    /\ st_out.kind = "NoMoreItems"

\* C12: after a successful fetch a page of fewer than 100 items sets the
\* budget to 0 and no later next() issues a dispatcher call; a full page
\* decrements a bounded budget by the page size and leaves a None budget
\* None, so that an unbounded iteration fetches on every empty buffer until
\* the first page of fewer than 100 items.
C12_BudgetUpdate ==
    [][/\ (StCalled /\ Last(st_reqs').outcome = "page") =>
             st_limit' = (IF Last(st_reqs').size < 100 THEN Limit(0)
                          ELSE IF st_limit.some
                          THEN Limit(st_limit.v - Last(st_reqs').size)
                          ELSE NoLimit)
       /\ ShortPageSeen => ~StCalled
       /\ (~st_given.some /\ ~ShortPageSeen) => ~st_limit.some
       /\ (~st_given.some /\ ~ShortPageSeen /\ StNextStep /\ st_queue = <<>>)
             => StCalled
      ]_vars

C12_Witness ==
    /\ ~st_given.some
    /\ Len(st_reqs) = 2
    /\ st_reqs[1].outcome = "page" /\ st_reqs[1].size = 100
    /\ st_reqs[2].outcome = "page" /\ st_reqs[2].size = 1
    /\ st_reqs[2].first = 100
    /\ st_limit = Limit(0)
    /\ st_got = 101
    /\ st_out.kind = "NoMoreItems"

\* A full page whose response carried no cursor.
FullPageNoCursor(c) == c.outcome = "page" /\ c.size = 100 /\ ~c.cursor

\* C13: the stored cursor changes only when the response's pagination
\* carries a cursor, and after a full page whose response carried no cursor
\* no dispatcher call is issued with the unchanged cursor.
C13_CursorDiscipline ==
    /\ [](\A j, k \in DOMAIN st_reqs :
             (j < k /\ FullPageNoCursor(st_reqs[j]))
                => st_reqs[k].after # st_reqs[j].after)
    /\ [][st_cursor' # st_cursor =>
             (StCalled /\ Last(st_reqs').outcome = "page"
                /\ Last(st_reqs').cursor)]_vars

\* C14: filter() raises OverflowError exactly when it is given more than
\* 100 user IDs, more than 100 user logins, more than 10 game IDs or more
\* than 100 languages, and it issues no dispatcher call.
C14_FilterBounds ==
    [][(st_state = "ready" /\ st_filters' # st_filters) =>
          /\ st_reqs' = st_reqs
          /\ st_out'.kind \in {"OverflowError", "self"}
          /\ st_out'.kind = "OverflowError" <=>
                \/ Len(st_out'.item.user_ids.lst) > 100
                \/ Len(st_out'.item.user_logins.lst) > 100
                \/ Len(st_out'.item.game_ids.lst) > 10
                \/ Len(st_out'.item.languages.lst) > 100
      ]_vars

C14_Witness ==
    /\ st_out.kind = "OverflowError"
    /\ Len(st_out.item.user_ids.lst) = 101
    /\ st_reqs = <<>>
    /\ st_filters = 1

\* C15: when the dispatcher call of a StreamIterator refill raises, next()
\* raises that HTTPException and the cursor, the budget, the filter and the
\* buffer are as before the refill; the next call of next() issues the same
\* request again.
C15_StreamFailureSafe ==
    /\ [][(StCalled /\ Last(st_reqs').outcome = "error") =>
             /\ st_out'.kind = "HTTPException"
             /\ UNCHANGED <<st_cursor, st_limit, st_filter, st_queue>>]_vars
    /\ [](\A k \in DOMAIN st_reqs :
             (k > 1 /\ st_reqs[k - 1].outcome = "error") =>
                /\ st_reqs[k].first = st_reqs[k - 1].first
                /\ st_reqs[k].after = st_reqs[k - 1].after)

C15_Witness ==
    /\ Len(st_reqs) = 2
    /\ st_reqs[1].outcome = "error"
    /\ st_reqs[2].outcome = "page"
    /\ st_reqs[2].size = 100
    /\ st_out.kind = "item"

(***************************************************************************)
(* Properties of next() and of refills, key-batched and cursor.            *)
(***************************************************************************)
\* A step of next() of a GameIterator or UserIterator that issued a
\* dispatcher call.
ItCalled == it_reqs' # it_reqs

\* C16: when the dispatcher call of a GameIterator or UserIterator refill
\* raises, next() raises that HTTPException and the position in the chunks
\* of each key set and the buffer are as before the refill, so that the
\* next call of next() requests the same chunks again.
C16_KeyBatchedFailureSafe ==
    /\ [][(it_state = "ready" /\ ItCalled /\ Last(it_reqs').outcome = "error") =>
             /\ it_out'.kind = "HTTPException"
             /\ UNCHANGED <<it_ids, it_names, it_queue>>]_vars
    /\ [](it_state = "ready" =>
             \A k \in DOMAIN it_reqs :
                (k > 1 /\ it_reqs[k - 1].outcome = "error") =>
                   /\ it_reqs[k].ids = it_reqs[k - 1].ids
                   /\ it_reqs[k].names = it_reqs[k - 1].names)

Chunk100(lst, k) == SubSeq(lst, 100 * (k - 1) + 1, Min(100 * k, Len(lst)))

\* The generator has no further chunk to yield.
Exhausted(g) ==
    \/ g.st \in {"none", "done"}
    \/ g.st = "new" /\ Len(g.lst) = 0
    \/ g.st = "susp" /\ g.i + g.n >= Len(g.lst)

C18_Case == it_kind = "game" /\ it_state = "ready"

\* C18: the k-th refill of a GameIterator issues one dispatcher call that
\* carries the k-th chunk (at most 100 keys) of the ids and the k-th chunk
\* of the names, as far as each key set still has chunks; a refill with both
\* key sets exhausted issues no dispatcher call and next() raises
\* NoMoreItems.
C18_LockStep ==
    /\ [](C18_Case =>
             /\ \A k \in DOMAIN it_reqs :
                   /\ it_reqs[k].ids = Chunk100(it_ids.lst, k)
                   /\ it_reqs[k].names = Chunk100(it_names.lst, k)
                   /\ Len(it_reqs[k].ids) <= 100
                   /\ Len(it_reqs[k].names) <= 100
                   /\ it_reqs[k].ids # <<>> \/ it_reqs[k].names # <<>>
             /\ Range(it_ids.lst) = Range(it_given.ids.lst)
             /\ Range(it_names.lst) = Range(it_given.names.lst))
    /\ [][C18_Case =>
             /\ (it_queue = <<>> /\ ~Exhausted(it_ids)) =>
                   (ItCalled /\ Last(it_reqs').ids # <<>>)
             /\ (it_queue = <<>> /\ ~Exhausted(it_names)) =>
                   (ItCalled /\ Last(it_reqs').names # <<>>)
             /\ (it_queue = <<>> /\ Exhausted(it_ids) /\ Exhausted(it_names)) =>
                   (~ItCalled /\ it_out'.kind = "NoMoreItems")]_vars

C18_Witness ==
    /\ C18_Case
    /\ Len(it_ids.lst) = 101
    /\ Len(it_names.lst) = 1
    /\ Len(it_reqs) = 2
    /\ Len(it_reqs[1].ids) = 100 /\ Len(it_reqs[1].names) = 1
    /\ Len(it_reqs[2].ids) = 1 /\ it_reqs[2].names = <<>>
    /\ it_faults = 0
    /\ it_out.kind = "NoMoreItems"

C19_Case ==
    /\ it_kind \in {"game", "user"}
    /\ it_state = "ready"
    /\ it_ids.st # "none" \/ it_names.st # "none"

\* C19: once a GameIterator or UserIterator (with at least one key set) has
\* no chunk left in any key set and its buffer is empty, every next() raises
\* NoMoreItems and issues no dispatcher call; a response with an empty
\* `data` array makes next() raise NoMoreItems, not an error.
C19_ExhaustedStaysExhausted ==
    /\ [][(C19_Case /\ it_queue = <<>> /\ Exhausted(it_ids) /\ Exhausted(it_names)) =>
             /\ ~ItCalled
             /\ it_out'.kind = "NoMoreItems"
             /\ Exhausted(it_ids') /\ Exhausted(it_names')
             /\ it_queue' = <<>>]_vars
    /\ [](C19_Case =>
             ((it_reqs # <<>> /\ Last(it_reqs).outcome = "empty")
                 => it_out.kind = "NoMoreItems"))

C19_Witness ==
    /\ C19_Case
    /\ it_kind = "user"
    /\ Len(it_reqs) = 2
    /\ it_reqs[1].outcome = "full"
    /\ it_reqs[2].outcome = "empty"
    /\ Exhausted(it_ids) /\ Exhausted(it_names)
    /\ it_ids.st = "done"
    /\ it_queue = <<>>
    /\ it_out.kind = "NoMoreItems"

\* C20: Client.get_game, Client.get_user and Client.get_stream given both
\* an ID and a name (login) raise TypeError, and so does the construction
\* of a GameIterator with neither ids nor names; no dispatcher call has been
\* issued when the error is raised.
C20_ConfigErrorsFirst ==
    /\ (cl_out # NoOut /\ cl_call.id # 0 /\ cl_call.name # 0) =>
          /\ cl_out.kind = "TypeError"
          /\ it_reqs = <<>>
          /\ st_reqs = <<>>
    /\ (it_kind = "game" /\ it_state \in {"ready", "invalid"}
          /\ ~it_given.ids.some /\ ~it_given.names.some) =>
          /\ it_state = "invalid"
          /\ it_out.kind = "TypeError"
          /\ it_reqs = <<>>
    /\ it_state = "invalid" => it_reqs = <<>>

C20_Witness ==
    /\ cl_call.op = "get_stream"
    /\ cl_call.id # 0 /\ cl_call.name # 0
    /\ cl_out.kind = "TypeError"
    /\ st_reqs = <<>>

\* C22: a StreamIterator constructed with a bounded limit L >= 0 receives
\* and yields at most L records in all, every response holding at most
\* `first` records; with L = 0 it yields nothing and issues no dispatcher
\* call.
C22_LimitBoundsYield ==
    (st_state = "ready" /\ st_given.some /\ st_given.v >= 0) =>
        /\ st_got + Len(st_queue) <= st_given.v
        /\ \A k \in DOMAIN st_reqs : st_reqs[k].size <= st_reqs[k].first
        /\ st_given.v = 0 => (st_reqs = <<>> /\ st_got = 0)

\* A budget of 101 spent by a page of 100 and a page of 1, all yielded.
C22_Witness ==
    /\ st_state = "ready"
    /\ st_given = Limit(PageLimit + 1)
    /\ Len(st_reqs) = 2
    /\ st_got = PageLimit + 1
    /\ st_out.kind = "NoMoreItems"

\* A budget of 0: next() has run and raised NoMoreItems.
C22_WitnessZero ==
    /\ st_state = "ready"
    /\ st_given = Limit(0)
    /\ st_out.kind = "NoMoreItems"

\* C28: a GameIterator or UserIterator over key sets raises NoMoreItems
\* only when every batch of every key set has been taken and requested: an
\* empty `data` for an earlier batch does not end the sequence.
C28_EndOnlyWhenExhausted ==
    (C19_Case /\ it_out.kind = "NoMoreItems") =>
        Exhausted(it_ids) /\ Exhausted(it_names)

\* The number of chunks a generator yields in all.
Batches(g) == IF g.st = "none" THEN 0 ELSE CeilDiv(Len(g.lst), g.n)

\* C29: a GameIterator or UserIterator polled with successful responses (a
\* record per requested key) issues a bounded number of dispatcher calls,
\* one per round of batches, and yields a finite sequence; a UserIterator
\* without ids and logins (lookup by bearer token) issues one call and
\* yields the one record of its response.
C29_BoundedCalls ==
    (it_state = "ready" /\ it_faults = 0) =>
        /\ Len(it_reqs) <= Max(1, Max(Batches(it_ids), Batches(it_names)))
        /\ it_got + Len(it_queue) <= Max(1, Len(it_ids.lst) + Len(it_names.lst))

\* A UserIterator constructed with ids and with logins.
C30_Case ==
    /\ it_kind = "user"
    /\ it_state = "ready"
    /\ it_ids.st # "none" /\ it_names.st # "none"

\* C30: a UserIterator constructed with both ids and logins never raises
\* other than NoMoreItems or the dispatcher's error, sends at most 100 keys
\* (ids plus logins) in a dispatcher call, sends no key twice, and has sent
\* every id and login once it ends after successful responses.
C30_BothKeySets ==
    C30_Case =>
        /\ it_out.kind # "TypeError"
        /\ \A k \in DOMAIN it_reqs :
              Len(it_reqs[k].ids) + Len(it_reqs[k].names) <= BatchSize
        /\ Unique(RequestedIds) /\ Unique(RequestedNames)
        /\ (it_out.kind = "NoMoreItems" /\ it_faults = 0) =>
              /\ Range(RequestedIds) = Range(it_ids.lst)
              /\ Range(RequestedNames) = Range(it_names.lst)

\* The records received so far, page after page, each page in the order of
\* its `data` array; a call that raised brought none.
ItReceived ==
    Concat([k \in DOMAIN it_reqs |->
               Page(it_reqs[k].outcome, it_reqs[k].ids, it_reqs[k].names)])
StReceived ==
    Concat([k \in DOMAIN st_reqs |->
               IF st_reqs[k].outcome = "error" THEN <<>>
               ELSE StreamPage(st_reqs[k].after, st_reqs[k].size)])

\* C31: next() delivers the records in the order received: the records
\* delivered so far are the first of those received, the last one delivered
\* is the latest of them, and the buffer holds exactly the rest, in order;
\* so no received record is dropped, overtaken or delivered twice.
C31_FifoDelivery ==
    /\ it_state = "ready" =>
          /\ it_got <= Len(ItReceived)
          /\ it_queue = SubSeq(ItReceived, it_got + 1, Len(ItReceived))
          /\ it_out.kind = "item" => it_out.item = ItReceived[it_got]
    /\ st_state = "ready" =>
          /\ st_got <= Len(StReceived)
          /\ st_queue = SubSeq(StReceived, st_got + 1, Len(StReceived))
          /\ st_out.kind = "item" => st_out.item = StReceived[st_got]

\* Two pages have been received and the delivery has passed from the
\* first page into the second, of which records are still buffered.
C31_Witness ==
    /\ it_kind = "game" /\ it_state = "ready"
    /\ Len(it_reqs) = 2
    /\ it_reqs[1].outcome = "full" /\ it_reqs[2].outcome = "full"
    /\ it_got = Len(it_reqs[1].ids) + Len(it_reqs[1].names) + 2
    /\ it_out.kind = "item"
    /\ it_queue # <<>>

\* The same for a StreamIterator: a full page, then a page of one record.
C31_WitnessStream ==
    /\ st_state = "ready"
    /\ Len(st_reqs) = 2
    /\ st_got = PageLimit + 1
    /\ st_out = [kind |-> "item", item |-> <<st_reqs[2].after, 1>>]

\* A step that is a call of filter().
FilterCalled == st_state = "ready" /\ st_filters' # st_filters

\* C32: a filter() call that raises OverflowError leaves the stored filter,
\* the cursor, the budget and the buffer unchanged; a successful call sets
\* the entries of the fields for which it was given a list and leaves
\* every other entry, those set by earlier calls included, as it was.
C32_FilterFrame ==
    [][FilterCalled =>
          /\ UNCHANGED <<st_cursor, st_limit, st_queue, st_reqs>>
          /\ st_out'.kind = "OverflowError" => st_filter' = st_filter
          /\ st_out'.kind = "self" =>
                \A f \in FilterFields :
                    st_filter'[f] = IF st_out'.item[f].some
                                    THEN st_out'.item[f]
                                    ELSE st_filter[f]
      ]_vars

\* A second successful call, made with a record buffered, has set one field
\* and left the entry that the first call set for another field.
C32_Witness ==
    /\ st_state = "ready"
    /\ st_filters = 2
    /\ st_out.kind = "self"
    /\ st_queue # <<>>
    /\ \E f, g \in FilterFields :
          /\ st_out.item[f].some /\ st_filter[f] = st_out.item[f]
          /\ ~st_out.item[g].some /\ st_filter[g].some

\* A call that raised after an earlier call had set the filter and a page
\* had moved the cursor and the budget.
C32_WitnessRaised ==
    /\ st_state = "ready"
    /\ st_filters = 2
    /\ st_out.kind = "OverflowError"
    /\ st_filter # NoFilter
    /\ st_queue # <<>> /\ st_cursor # 0 /\ st_limit # st_given

(***************************************************************************)
(* Properties of the request headers.                                      *)
(***************************************************************************)
\* C21: every request() call issues its HTTP request with the Client-ID
\* header equal to the client id given at construction and, when a token
\* was given, with `Authorization: Bearer <token>` of exactly that token,
\* whether the HTTPClient was constructed directly or by Client.
C21_RequestHeaders ==
    \A k \in DOMAIN hc_calls :
        /\ hc_calls[k].outcome = "issued"
        /\ hc_calls[k].client_id = hc_given.client_id
        /\ Truthy(hc_given.token) => hc_calls[k].auth = Bearer(hc_given.token)
=============================================================================
